---------------------------- MODULE Spec2Model ----------------------------
(***************************************************************************)
(* Model of the Grok MCP server (src/src/index.ts): the CallTool handler   *)
(* that validates a tool call, builds one chat-completions request, posts  *)
(* it and wraps the upstream outcome into a tool result.                   *)
(*                                                                         *)
(* A JavaScript string is a sequence of atoms (TLA+ strings that stand for *)
(* a run of characters); concatenation is \o.  A JavaScript value is a     *)
(* record [k, s, items]: k its kind, s the text of a string / number /     *)
(* boolean, items the elements of an array or the own properties           *)
(* [key, val] of an object, in property order.                             *)
(***************************************************************************)
EXTENDS Integers, Sequences, FiniteSets, TLC

VARIABLES calls, posted

vars == << calls, posted >>

-----------------------------------------------------------------------------
(* JavaScript values *)

Undefined == [k |-> "undefined", s |-> << >>, items |-> << >>]
Null == [k |-> "null", s |-> << >>, items |-> << >>]
Str(s) == [k |-> "string", s |-> s, items |-> << >>]
Num(lex) == [k |-> "number", s |-> << lex >>, items |-> << >>]
Bool(lex) == [k |-> "boolean", s |-> << lex >>, items |-> << >>]
Arr(items) == [k |-> "array", s |-> << >>, items |-> items]
Obj(props) == [k |-> "object", s |-> << >>, items |-> props]

\* typeof v
TypeOf(v) == IF v.k \in {"null", "array", "object"} THEN "object" ELSE v.k

\* ToBoolean(v), as in `if (v)` and `a || b`, for the values the handlers test
Truthy(v) ==
    CASE v.k \in {"undefined", "null"} -> FALSE
      [] v.k = "string" -> v.s # << >>
      [] v.k = "boolean" -> v.s = << "true" >>
      [] v.k = "number" -> v.s # << "0" >>
      [] OTHER -> TRUE

\* an exception in flight: its message property
Thrown(msg) == [ok |-> FALSE, msg |-> msg, val |-> Undefined]
Value(v) == [ok |-> TRUE, msg |-> << >>, val |-> v]

-----------------------------------------------------------------------------
(* JSON.parse, over the lexemes of the text *)

NumLits == {"0", "1", "1.5"}

\* the string literals of the texts, and the characters each denotes
StrLitText ==
    [l \in {"\"amount\"", "\"signature\"", "\"fee\"", "\"toString\"", "\"0\"",
            "\"1\"", "\"1.5\"", "\"x\"", "\"ab\"", "\"\"", "\"choices\"",
            "\"message\"", "\"content\"", "\"T\"", "\"error\""} |->
        CASE l = "\"amount\"" -> << "amount" >>
          [] l = "\"signature\"" -> << "signature" >>
          [] l = "\"fee\"" -> << "fee" >>
          [] l = "\"toString\"" -> << "toString" >>
          [] l = "\"0\"" -> << "0" >>
          [] l = "\"1\"" -> << "1" >>
          [] l = "\"1.5\"" -> << "1.5" >>
          [] l = "\"x\"" -> << "x" >>
          [] l = "\"ab\"" -> << "a", "b" >>
          [] l = "\"\"" -> << >>
          [] l = "\"choices\"" -> << "choices" >>
          [] l = "\"message\"" -> << "message" >>
          [] l = "\"content\"" -> << "content" >>
          [] l = "\"T\"" -> << "T" >>
          [] l = "\"error\"" -> << "error" >>]

\* array-index property names, which an object orders first and ascending
IndexOf(key) ==
    CASE key = << "0" >> -> 0
      [] key = << "1" >> -> 1
      [] key = << "2" >> -> 2
      [] OTHER -> -1

HasOwn(props, key) == \E i \in 1..Len(props) : props[i].key = key

\* where a new property goes: index keys ascending, then the others in
\* insertion order
InsertAt(props, key) ==
    IF IndexOf(key) < 0 THEN Len(props) + 1
    ELSE 1 + Cardinality({i \in 1..Len(props) :
                            /\ IndexOf(props[i].key) >= 0
                            /\ IndexOf(props[i].key) < IndexOf(key)})

\* obj[key] = val while parsing: a repeated key keeps its place and takes
\* the later value
DefineProp(props, key, val) ==
    IF HasOwn(props, key)
    THEN [i \in 1..Len(props) |->
            IF props[i].key = key THEN [key |-> key, val |-> val] ELSE props[i]]
    ELSE LET n == InsertAt(props, key)
         IN  SubSeq(props, 1, n - 1) \o << [key |-> key, val |-> val] >>
                \o SubSeq(props, n, Len(props))

ParseFail == [ok |-> FALSE, val |-> Undefined, rest |-> << >>]
Parsed(v, rest) == [ok |-> TRUE, val |-> v, rest |-> rest]

RECURSIVE ParseValue(_), ParseElements(_, _), ParseMembers(_, _)

ParseValue(toks) ==
    IF toks = << >> THEN ParseFail
    ELSE LET h == Head(toks)
             t == Tail(toks)
         IN  CASE h = "null" -> Parsed(Null, t)
               [] h \in {"true", "false"} -> Parsed(Bool(h), t)
               [] h \in NumLits -> Parsed(Num(h), t)
               [] h \in DOMAIN StrLitText -> Parsed(Str(StrLitText[h]), t)
               [] h = "[" ->
                    IF t # << >> /\ Head(t) = "]"
                    THEN Parsed(Arr(<< >>), Tail(t))
                    ELSE ParseElements(t, << >>)
               [] h = "{" ->
                    IF t # << >> /\ Head(t) = "}"
                    THEN Parsed(Obj(<< >>), Tail(t))
                    ELSE ParseMembers(t, << >>)
               [] OTHER -> ParseFail

\* value ("," value)* "]"
ParseElements(toks, acc) ==
    LET r == ParseValue(toks)
    IN  IF ~r.ok \/ r.rest = << >> THEN ParseFail
        ELSE CASE Head(r.rest) = "]" ->
                    Parsed(Arr(Append(acc, r.val)), Tail(r.rest))
               [] Head(r.rest) = "," ->
                    ParseElements(Tail(r.rest), Append(acc, r.val))
               [] OTHER -> ParseFail

\* string ":" value ("," string ":" value)* "}"
ParseMembers(toks, props) ==
    IF Len(toks) < 2 \/ Head(toks) \notin DOMAIN StrLitText \/ toks[2] # ":"
    THEN ParseFail
    ELSE LET key == StrLitText[Head(toks)]
             r == ParseValue(SubSeq(toks, 3, Len(toks)))
         IN  IF ~r.ok \/ r.rest = << >> THEN ParseFail
             ELSE CASE Head(r.rest) = "}" ->
                         Parsed(Obj(DefineProp(props, key, r.val)), Tail(r.rest))
                    [] Head(r.rest) = "," ->
                         ParseMembers(Tail(r.rest), DefineProp(props, key, r.val))
                    [] OTHER -> ParseFail

\* JSON.parse(text): the value, or a SyntaxError
JSONParse(text) ==
    LET r == ParseValue(text)
    IN  IF r.ok /\ r.rest = << >> THEN Value(r.val)
        ELSE Thrown(<< "Unexpected token in JSON" >>)

-----------------------------------------------------------------------------
(* The JavaScript operations the handlers apply to parsed values *)

IndexName(i) ==
    CASE i = 0 -> << "0" >>
      [] i = 1 -> << "1" >>
      [] i = 2 -> << "2" >>
      [] OTHER -> << "n" >>

\* Object.entries(v): the own enumerable properties of ToObject(v)
ObjectEntries(v) ==
    CASE v.k \in {"undefined", "null"} ->
            [ok |-> FALSE, msg |-> << "Cannot convert undefined or null to object" >>,
             entries |-> << >>]
      [] v.k = "object" -> [ok |-> TRUE, msg |-> << >>, entries |-> v.items]
      [] v.k = "array" ->
            [ok |-> TRUE, msg |-> << >>,
             entries |-> [i \in 1..Len(v.items) |->
                            [key |-> IndexName(i - 1), val |-> v.items[i]]]]
      [] v.k = "string" ->
            [ok |-> TRUE, msg |-> << >>,
             entries |-> [i \in 1..Len(v.s) |->
                            [key |-> IndexName(i - 1), val |-> Str(<< v.s[i] >>)]]]
      [] OTHER -> [ok |-> TRUE, msg |-> << >>, entries |-> << >>]

\* Object.keys(v)
ObjectKeys(v) ==
    LET e == ObjectEntries(v)
    IN  [ok |-> e.ok, msg |-> e.msg,
         keys |-> [i \in 1..Len(e.entries) |-> e.entries[i].key]]

RECURSIVE TemplateString(_), JoinItems(_, _)

\* `${v}`: the string a template literal renders v as.  An object with an own toString property (never
\* callable in parsed JSON) has no primitive value.
TemplateString(v) ==
    CASE v.k = "undefined" -> Value(Str(<< "undefined" >>))
      [] v.k = "null" -> Value(Str(<< "null" >>))
      [] v.k \in {"string", "number", "boolean"} -> Value(Str(v.s))
      [] v.k = "object" ->
            IF HasOwn(v.items, << "toString" >>)
            THEN Thrown(<< "Cannot convert object to primitive value" >>)
            ELSE Value(Str(<< "[object Object]" >>))
      [] v.k = "array" -> JoinItems(v.items, 1)

\* Array.prototype.join from element i: null and undefined render empty
JoinItems(items, i) ==
    IF i > Len(items) THEN Value(Str(<< >>))
    ELSE LET h == IF items[i].k \in {"undefined", "null"}
                  THEN Value(Str(<< >>))
                  ELSE TemplateString(items[i])
             t == JoinItems(items, i + 1)
         IN  IF ~h.ok THEN h
             ELSE IF ~t.ok THEN t
             ELSE Value(Str(h.val.s \o (IF i < Len(items) THEN << "," >> ELSE << >>)
                              \o t.val.s))

\* v[key] (v.key): a TypeError on undefined and null
GetProp(v, key) ==
    CASE v.k \in {"undefined", "null"} ->
            Thrown(<< "Cannot read properties of ", v.k, " (reading '" >> \o key
                      \o << "')" >>)
      [] v.k = "object" ->
            IF HasOwn(v.items, key)
            THEN Value((CHOOSE p \in {v.items[i] : i \in 1..Len(v.items)} :
                            p.key = key).val)
            ELSE Value(Undefined)
      [] v.k = "array" ->
            IF IndexOf(key) >= 0 /\ IndexOf(key) < Len(v.items)
            THEN Value(v.items[IndexOf(key) + 1])
            ELSE Value(Undefined)
      [] v.k = "string" ->
            IF IndexOf(key) >= 0 /\ IndexOf(key) < Len(v.s)
            THEN Value(Str(<< v.s[IndexOf(key) + 1] >>))
            ELSE Value(Undefined)
      [] OTHER -> Value(Undefined)

-----------------------------------------------------------------------------
(* Requests, results and faults *)

Endpoint == "https://api.x.ai/v1/chat/completions"
VisionModel == "grok-2-vision-latest"
TextModel == "grok-2-latest"
Temperature == "0.7"

TextPart(text) == [type |-> "text", text |-> text]
ImagePart(url) == [type |-> "image_url", image_url |-> [url |-> url, detail |-> "high"]]

\* `data:image/jpeg;base64,${b64}`
DataUrl(b64) == << "data:image/jpeg;base64," >> \o b64

\* the arguments of axios.post: the endpoint and the body
ChatRequest(model, systemPrompt, userContent) ==
    [url |-> Endpoint,
     model |-> model,
     messages |-> << [role |-> "system", content |-> systemPrompt],
                     [role |-> "user", content |-> userContent] >>,
     temperature |-> Temperature]

NoRequest == [url |-> "", model |-> "", messages |-> << >>, temperature |-> ""]
NoResult == [content |-> << >>, isError |-> "absent"]
NoFault == [code |-> "", message |-> << >>]

McpError(code, message) == [code |-> code, message |-> message]

\* how far a handler gets before it first yields: it throws out of the
\* request handler, it returns a result, or it awaits axios.post(req)
Faulted(f) == [kind |-> "fault", fault |-> f, req |-> NoRequest, result |-> NoResult]
Returned(r) == [kind |-> "return", fault |-> NoFault, req |-> NoRequest, result |-> r]
Awaiting(req) == [kind |-> "await", fault |-> NoFault, req |-> req, result |-> NoResult]

\* the system message of each handler
systemPrompt(name) ==
    CASE name = "analyze_transaction" ->
            << "You are an expert Solana blockchain analyst. ",
               "Analyze the given transaction information and provide detailed insights. ",
               "Focus on what the transaction does, which programs it interacts with, and its overall purpose. ",
               "If applicable, mention any tokens transferred, their amounts, and the parties involved." >>
      [] name = "analyze_address" ->
            << "You are an expert Solana blockchain analyst. Analyze the given address information and provide detailed insights." >>
      [] name = "analyze_image" ->
            << "You are an advanced AI with powerful vision capabilities. Analyze the provided image and respond to the user's query in detail." >>
      [] name = "ask_grok" ->
            << "You are Grok, a helpful AI assistant with expertise in blockchain technology, especially Solana. You can also analyze images when provided." >>

ToolNames == {"analyze_transaction", "analyze_address", "analyze_image", "ask_grok"}

\* the phrase of each handler's catch block
Verb(name) ==
    CASE name = "analyze_transaction" -> "analyzing transaction"
      [] name = "analyze_address" -> "analyzing address"
      [] name = "analyze_image" -> "analyzing image"
      [] name = "ask_grok" -> "asking Grok"

\* catch (error) { return { content: [...`Error <verb>: ${error.message}`], isError: true } }
catchResult(name, message) ==
    [content |-> << [type |-> "text",
                     text |-> Str(<< "Error ", Verb(name), ": " >> \o message)] >>,
     isError |-> "true"]

\* return { content: [{ type: 'text', text }] }
textResult(text) == [content |-> << [type |-> "text", text |-> text] >>,
                     isError |-> "absent"]

-----------------------------------------------------------------------------
(* The handlers up to their await *)

parseDetailsOrText(details) ==
    IF Truthy(details)
    THEN LET p == JSONParse(details.s)
         IN  IF p.ok THEN p.val ELSE details
    ELSE Obj(<< >>)

\* let detailsObj = {}; if (details) { try { JSON.parse } catch { log } }
parseDetails(details) ==
    IF Truthy(details)
    THEN LET p == JSONParse(details.s)
         IN  IF p.ok THEN p.val ELSE Obj(<< >>)
    ELSE Obj(<< >>)

RECURSIVE detailLines(_, _)

\* for (const [key, value] of entries) if (key !== 'signature') text += `- ${key}: ${value}\n`
detailLines(entries, i) ==
    IF i > Len(entries) THEN Value(Str(<< >>))
    ELSE IF entries[i].key # << "signature" >>
    THEN LET v == TemplateString(entries[i].val)
             rest == detailLines(entries, i + 1)
         IN  IF ~v.ok THEN v
             ELSE IF ~rest.ok THEN rest
             ELSE Value(Str(<< "- " >> \o entries[i].key \o << ": " >> \o v.val.s
                              \o << "\n" >> \o rest.val.s))
    ELSE detailLines(entries, i + 1)

\* userPromptText of handleAnalyzeTransaction
userPromptText(signature, detailsObj) ==
    LET head == << "Analyze this Solana transaction: " >> \o signature.s
                    \o << "\n", "\n" >>
        keys == ObjectKeys(detailsObj)
        lines == detailLines(ObjectEntries(detailsObj).entries, 1)
    IN  IF ~keys.ok THEN Thrown(keys.msg)
        ELSE IF Len(keys.keys) > 0
        THEN IF ~lines.ok THEN lines
             ELSE Value(Str(head \o << "Additional details:\n" >> \o lines.val.s))
        ELSE Value(Str(head))

handleAnalyzeTransaction(args) ==
    LET text == userPromptText(args.signature, parseDetails(args.details))
        userContent ==
            << TextPart(text.val.s) >>
              \o (IF Truthy(args.screenshot)
                  THEN << ImagePart(DataUrl(args.screenshot.s)) >> ELSE << >>)
    IN  IF ~text.ok THEN Returned(catchResult("analyze_transaction", text.msg))
        ELSE Awaiting(ChatRequest(VisionModel, systemPrompt("analyze_transaction"), userContent))

handleAnalyzeAddress(args) ==
    LET content ==
            << TextPart(<< "Analyze this Solana address: " >> \o args.address.s) >>
              \o (IF Truthy(args.screenshot)
                  THEN << ImagePart(DataUrl(args.screenshot.s)) >> ELSE << >>)
    IN  Awaiting(ChatRequest(VisionModel, systemPrompt("analyze_address"), content))

\* if (image) base64 part; else if (image_url) url part
imageContent(image, image_url) ==
    IF Truthy(image) THEN << ImagePart(DataUrl(image.s)) >>
    ELSE IF Truthy(image_url) THEN << ImagePart(image_url.s) >>
    ELSE << >>

handleAnalyzeImage(args) ==
    LET userContent == imageContent(args.image, args.image_url)
                         \o << TextPart(args.prompt.s) >>
    IN  Awaiting(ChatRequest(VisionModel, systemPrompt("analyze_image"), userContent))

askGrokModelByImageOnly(image, image_url) ==
    IF Truthy(image) THEN VisionModel ELSE TextModel

\* const model = image || image_url ? vision : text
askGrokModel(image, image_url) ==
    IF Truthy(IF Truthy(image) THEN image ELSE image_url)
    THEN VisionModel ELSE TextModel

handleAskGrok(args) ==
    LET text == IF Truthy(args.context)
                THEN args.context.s \o << "\n", "\n" >> \o args.question.s
                ELSE args.question.s
        userContent == imageContent(args.image, args.image_url) \o << TextPart(text) >>
    IN  Awaiting(ChatRequest(askGrokModel(args.image, args.image_url),
                             systemPrompt("ask_grok"), userContent))

-----------------------------------------------------------------------------
(* The CallTool request handler *)

\* args.f of the arguments bag
Arg(args, f) == IF f \in DOMAIN args.bag THEN args.bag[f] ELSE Undefined

optionalUnchecked(v) == v

\* typeof v === 'string' ? v : undefined
optional(v) == IF TypeOf(v) = "string" THEN v ELSE Undefined

missingUnlessPresent(args, f) == ~args.present \/ Arg(args, f).k = "undefined"

\* !args || typeof args.f !== 'string'
missing(args, f) == ~args.present \/ TypeOf(Arg(args, f)) # "string"

missingError(f) ==
    McpError("InvalidParams", << "Missing required ", f, " parameter" >>)

unknownToolSwallowed(name) ==
    Returned([content |-> << [type |-> "text",
                             text |-> Str(<< "Unknown tool: ", name >>)] >>,
              isError |-> "true"])

\* the else branch: throw new McpError(MethodNotFound, `Unknown tool: ${name}`)
unknownTool(name) == Faulted(McpError("MethodNotFound", << "Unknown tool: ", name >>))

CallToolHandler(name, args) ==
    CASE name = "analyze_transaction" ->
            IF missing(args, "signature") THEN Faulted(missingError("signature"))
            ELSE handleAnalyzeTransaction(
                    [signature |-> Arg(args, "signature"),
                     screenshot |-> optional(Arg(args, "screenshot")),
                     details |-> optional(Arg(args, "details"))])
      [] name = "analyze_address" ->
            IF missing(args, "address") THEN Faulted(missingError("address"))
            ELSE handleAnalyzeAddress(
                    [address |-> Arg(args, "address"),
                     screenshot |-> optional(Arg(args, "screenshot"))])
      [] name = "analyze_image" ->
            IF missing(args, "prompt") THEN Faulted(missingError("prompt"))
            ELSE handleAnalyzeImage(
                    [prompt |-> Arg(args, "prompt"),
                     image |-> optional(Arg(args, "image")),
                     image_url |-> optional(Arg(args, "image_url"))])
      [] name = "ask_grok" ->
            IF missing(args, "question") THEN Faulted(missingError("question"))
            ELSE handleAskGrok(
                    [question |-> Arg(args, "question"),
                     context |-> optional(Arg(args, "context")),
                     image |-> optional(Arg(args, "image")),
                     image_url |-> optional(Arg(args, "image_url"))])
      [] OTHER -> unknownTool(name)

-----------------------------------------------------------------------------
(* The handlers after their await *)

\* response.data: the body parsed as JSON, or left a string when it is not JSON
responseData(body) ==
    LET p == JSONParse(body)
    IN  IF p.ok THEN p.val ELSE Str(body)

messageContentOfLast(data) ==
    LET choices == GetProp(data, << "choices" >>)
        last == GetProp(choices.val, IndexName(Len(choices.val.items) - 1))
        message == GetProp(last.val, << "message" >>)
        content == GetProp(message.val, << "content" >>)
    IN  IF ~choices.ok THEN choices
        ELSE IF ~last.ok THEN last
        ELSE IF ~message.ok THEN message
        ELSE content

\* response.data.choices[0].message.content
messageContent(data) ==
    LET choices == GetProp(data, << "choices" >>)
        first == GetProp(choices.val, << "0" >>)
        message == GetProp(first.val, << "message" >>)
        content == GetProp(message.val, << "content" >>)
    IN  IF ~choices.ok THEN choices
        ELSE IF ~first.ok THEN first
        ELSE IF ~message.ok THEN message
        ELSE content

\* the return after `await axios.post(...)` resolved, or the catch block
onResolved(name, body) ==
    LET text == messageContent(responseData(body))
    IN  IF text.ok THEN textResult(text.val) ELSE catchResult(name, text.msg)

onRejectedAsText(name, message) == textResult(Str(message))

\* the catch block after `await axios.post(...)` rejected
onRejected(name, message) == catchResult(name, message)

-----------------------------------------------------------------------------
(* The calls the protocol runtime may deliver and the answers of the upstream *)

NonStrings == {Num("1"), Bool("true"), Null, Obj(<< >>), Arr(<< >>)}

SampleText ==
    [signature |-> "5Kd3", screenshot |-> "iVBORw0", address |-> "7xKX",
     prompt |-> "Describe", image |-> "R0lGOD", image_url |-> "https://img.example/a.png",
     question |-> "Why", context |-> "Context"]

\* what a field other than details may hold: nothing, a non-string, the
\* empty string or a non-empty string
ValuesOf(f) == {Undefined} \cup NonStrings \cup {Str(<< >>), Str(<< SampleText[f] >>)}

\* the texts of details, as lexemes
DetailsTexts ==
    { << >>,
      << "not json" >>,
      << "{", "\"amount\"", ":" >>,
      << "{", "\"amount\"", ":", "1", ",", "}" >>,
      << "{", "}" >>,
      << "{", "\"amount\"", ":", "\"1.5\"", ",", "\"signature\"", ":", "\"x\"", "}" >>,
      << "{", "\"signature\"", ":", "\"x\"", "}" >>,
      << "{", "\"signature\"", ":", "\"x\"", ",", "\"fee\"", ":", "1", ",",
         "\"amount\"", ":", "\"1.5\"", "}" >>,
      << "{", "\"amount\"", ":", "1", ",", "\"1\"", ":", "\"x\"", ",",
         "\"0\"", ":", "true", "}" >>,
      << "{", "\"amount\"", ":", "1", ",", "\"fee\"", ":", "0", ",",
         "\"amount\"", ":", "\"x\"", "}" >>,
      << "{", "\"amount\"", ":", "{", "\"fee\"", ":", "1", "}", "}" >>,
      << "{", "\"amount\"", ":", "{", "\"toString\"", ":", "1", "}", "}" >>,
      << "{", "\"amount\"", ":", "[", "1", ",", "null", ",", "\"x\"", "]", "}" >>,
      << "{", "\"amount\"", ":", "null", "}" >>,
      << "null" >>,
      << "[", "1", ",", "\"x\"", "]" >>,
      << "[", "]" >>,
      << "\"ab\"" >>,
      << "\"\"" >>,
      << "1.5" >>,
      << "true" >> }

DetailsValues == {Undefined} \cup NonStrings \cup {Str(t) : t \in DetailsTexts}

UnknownNames == {"", "Analyze_Transaction", "ask_grok ", "list_tools"}

Absent(bag) == [present |-> FALSE, bag |-> bag]
Present(bag) == [present |-> TRUE, bag |-> bag]

\* the argument bags of a call of each name
Bags(name) ==
    CASE name = "analyze_transaction" ->
            {[signature |-> a, screenshot |-> b, details |-> c] :
                a \in ValuesOf("signature"), b \in ValuesOf("screenshot"),
                c \in DetailsValues}
      [] name = "analyze_address" ->
            {[address |-> a, screenshot |-> b] :
                a \in ValuesOf("address"), b \in ValuesOf("screenshot")}
      [] name = "analyze_image" ->
            {[prompt |-> a, image |-> b, image_url |-> c] :
                a \in ValuesOf("prompt"), b \in ValuesOf("image"),
                c \in ValuesOf("image_url")}
      [] name = "ask_grok" ->
            {[question |-> a, context |-> b, image |-> c, image_url |-> d] :
                a \in ValuesOf("question"), b \in ValuesOf("context"),
                c \in ValuesOf("image"), d \in ValuesOf("image_url")}
      [] OTHER ->
            {[question |-> a, signature |-> b] :
                a \in {Undefined, Str(<< SampleText["question"] >>)},
                b \in {Undefined, Str(<< SampleText["signature"] >>)}}

NoBag(name) == [f \in DOMAIN (CHOOSE b \in Bags(name) : TRUE) |-> Undefined]

Arguments(name) == {Absent(NoBag(name))} \cup {Present(b) : b \in Bags(name)}

\* the bodies of a 2xx answer, as lexemes
Bodies ==
    { << "{", "\"choices\"", ":", "[", "{", "\"message\"", ":", "{", "\"content\"",
         ":", "\"T\"", "}", "}", "]", "}" >>,
      << "{", "\"choices\"", ":", "[", "{", "\"message\"", ":", "{", "\"content\"",
         ":", "\"ab\"", "}", "}", ",", "{", "\"message\"", ":", "{", "\"content\"",
         ":", "\"x\"", "}", "}", "]", "}" >>,
      << "{", "\"choices\"", ":", "[", "{", "\"message\"", ":", "{", "\"content\"",
         ":", "\"\"", "}", "}", "]", "}" >>,
      << "{", "\"choices\"", ":", "[", "{", "\"message\"", ":", "{", "\"content\"",
         ":", "null", "}", "}", "]", "}" >>,
      << "{", "\"choices\"", ":", "[", "{", "\"message\"", ":", "{", "}", "}", "]", "}" >>,
      << "{", "\"choices\"", ":", "[", "{", "\"message\"", ":", "\"x\"", "}", "]", "}" >>,
      << "{", "\"choices\"", ":", "[", "{", "\"message\"", ":", "null", "}", "]", "}" >>,
      << "{", "\"choices\"", ":", "[", "{", "}", "]", "}" >>,
      << "{", "\"choices\"", ":", "[", "]", "}" >>,
      << "{", "\"error\"", ":", "\"x\"", "}" >>,
      << "{", "}" >>,
      << "null" >>,
      << "<html>" >>,
      << >> }

\* error.message of a rejected axios.post: no answer, or a failure status
Rejections ==
    { << "Network Error" >>,
      << "Request failed with status code 500" >>,
      << "Request failed with status code 401" >> }

-----------------------------------------------------------------------------
(* The state: the calls being handled, and what each has posted *)

Idle ==
    [st |-> "idle", name |-> "", args |-> Absent(<< >>), fault |-> NoFault,
     result |-> NoResult, settled |-> "", body |-> << >>, message |-> << >>]

TypeOK ==
    /\ \A c \in DOMAIN calls :
          /\ calls[c].st \in {"idle", "awaiting", "returned", "faulted"}
          /\ calls[c].settled \in {"", "resolved", "rejected"}
    /\ DOMAIN posted = DOMAIN calls

Init ==
    /\ calls = [c \in {1} |-> Idle]
    /\ posted = [c \in {1} |-> << >>]

\* the call the handler starts on: its outcome up to the first await, its
\* throw or its return
Started(name, args) ==
    LET o == CallToolHandler(name, args)
    IN  [Idle EXCEPT !.st = CASE o.kind = "fault" -> "faulted"
                             [] o.kind = "return" -> "returned"
                             [] o.kind = "await" -> "awaiting",
                     !.name = name, !.args = args,
                     !.fault = o.fault, !.result = o.result]

\* the runtime delivers a call: the request handler runs up to its first
\* await, its throw or its return
Deliver(c, name, args) ==
    /\ calls' = [calls EXCEPT ![c] = Started(name, args)]
    /\ posted' = [posted EXCEPT ![c] =
          LET o == CallToolHandler(name, args)
          IN  IF o.kind = "await" THEN Append(@, o.req) ELSE @]

CallToolRequest(c) ==
    /\ calls[c].st = "idle"
    /\ \E name \in ToolNames \cup UnknownNames :
          \E args \in Arguments(name) : Deliver(c, name, args)

invocationShared(c) ==
    IF \E d \in DOMAIN calls : d # c /\ calls[d].st # "idle"
    THEN calls[CHOOSE d \in DOMAIN calls : d # c /\ calls[d].st # "idle"]
    ELSE calls[c]

\* the invocation that awaits the post of slot c: the locals of its own
\* async call (each handler keeps its data in const/let locals)
invocation(c) == calls[c]

\* the post of slot c resolved with this body
Resolve(c, body) ==
    /\ calls' = [calls EXCEPT ![c].st = "returned",
                              ![c].settled = "resolved",
                              ![c].body = body,
                              ![c].result = onResolved(invocation(c).name, body)]
    /\ UNCHANGED posted

\* the post of slot c was rejected with this message
Reject(c, message) ==
    /\ calls' = [calls EXCEPT ![c].st = "returned",
                              ![c].settled = "rejected",
                              ![c].message = message,
                              ![c].result = onRejected(invocation(c).name, message)]
    /\ UNCHANGED posted

\* the upstream answers 2xx: the handler resumes after its await
AxiosResolve(c) ==
    /\ calls[c].st = "awaiting"
    /\ \E body \in Bodies : Resolve(c, body)

\* the post fails: the handler resumes in its catch block
AxiosReject(c) ==
    /\ calls[c].st = "awaiting"
    /\ \E message \in Rejections : Reject(c, message)

\* the runtime sends the result or the fault to the client; nothing of the
\* call remains
Respond(c) ==
    /\ calls[c].st \in {"returned", "faulted"}
    /\ calls' = [calls EXCEPT ![c] = Idle]
    /\ posted' = [posted EXCEPT ![c] = << >>]

Next ==
    \/ \E c \in DOMAIN calls : CallToolRequest(c)
    \/ \E c \in DOMAIN calls : AxiosResolve(c)
    \/ \E c \in DOMAIN calls : AxiosReject(c)
    \/ \E c \in DOMAIN calls : Respond(c)

Spec == Init /\ [][Next]_vars

-----------------------------------------------------------------------------
(* Several calls in flight: the runtime delivers a call while others await  *)
(* their posts, and the answers arrive in any order                         *)

MaxInFlight == 2

Sig == Str(<< SampleText["signature"] >>)

\* the calls delivered while others are in flight
ConcurrentCalls ==
    { [name |-> "ask_grok",
       args |-> Present([question |-> Str(<< SampleText["question"] >>),
                         context |-> Str(<< SampleText["context"] >>),
                         image |-> Undefined, image_url |-> Undefined])],
      [name |-> "ask_grok",
       args |-> Present([question |-> Str(<< SampleText["question"] >>),
                         context |-> Undefined,
                         image |-> Str(<< SampleText["image"] >>),
                         image_url |-> Undefined])],
      [name |-> "analyze_address",
       args |-> Present([address |-> Str(<< SampleText["address"] >>),
                         screenshot |-> Num("1")])],
      [name |-> "analyze_transaction",
       args |-> Present([signature |-> Sig, screenshot |-> Undefined,
                         details |-> Str(<< "{", "\"amount\"", ":", "\"1.5\"", ",",
                                            "\"signature\"", ":", "\"x\"", "}" >>)])],
      [name |-> "analyze_transaction",
       args |-> Present([signature |-> Sig, screenshot |-> Undefined,
                         details |-> Str(<< "null" >>)])],
      [name |-> "analyze_image", args |-> Absent(NoBag("analyze_image"))],
      [name |-> "list_tools", args |-> Absent(NoBag("list_tools"))] }

ConcurrentBodies ==
    { << "{", "\"choices\"", ":", "[", "{", "\"message\"", ":", "{", "\"content\"",
         ":", "\"T\"", "}", "}", "]", "}" >>,
      << "{", "\"choices\"", ":", "[", "{", "\"message\"", ":", "{", "\"content\"",
         ":", "\"ab\"", "}", "}", ",", "{", "\"message\"", ":", "{", "\"content\"",
         ":", "\"x\"", "}", "}", "]", "}" >>,
      << "{", "\"choices\"", ":", "[", "]", "}" >> }

ConcurrentRejections == { << "Request failed with status code 500" >> }

InitConc ==
    /\ calls = [c \in 1..MaxInFlight |-> Idle]
    /\ posted = [c \in 1..MaxInFlight |-> << >>]

CallToolRequestConc(c) ==
    /\ calls[c].st = "idle"
    /\ \E call \in ConcurrentCalls : Deliver(c, call.name, call.args)

AxiosResolveConc(c) ==
    /\ calls[c].st = "awaiting"
    /\ \E body \in ConcurrentBodies : Resolve(c, body)

AxiosRejectConc(c) ==
    /\ calls[c].st = "awaiting"
    /\ \E message \in ConcurrentRejections : Reject(c, message)

NextConc ==
    \/ \E c \in DOMAIN calls : CallToolRequestConc(c)
    \/ \E c \in DOMAIN calls : AxiosResolveConc(c)
    \/ \E c \in DOMAIN calls : AxiosRejectConc(c)
    \/ \E c \in DOMAIN calls : Respond(c)

SpecConc == InitConc /\ [][NextConc]_vars

-----------------------------------------------------------------------------
(* What the claims speak of *)

Handled == {c \in DOMAIN calls : calls[c].st # "idle"}

RequiredField ==
    [analyze_transaction |-> "signature", analyze_address |-> "address",
     analyze_image |-> "prompt", ask_grok |-> "question"]

OptionalFields ==
    [analyze_transaction |-> {"screenshot", "details"},
     analyze_address |-> {"screenshot"},
     analyze_image |-> {"image", "image_url"},
     ask_grok |-> {"context", "image", "image_url"}]

ErrorVerb ==
    [analyze_transaction |-> "analyzing transaction",
     analyze_address |-> "analyzing address",
     analyze_image |-> "analyzing image",
     ask_grok |-> "asking Grok"]

IsString(v) == v.k = "string"

\* the call names one of the four tools and carries its required string
Valid(c) ==
    /\ calls[c].name \in ToolNames
    /\ calls[c].args.present
    /\ IsString(calls[c].args.bag[RequiredField[calls[c].name]])

\* the one text block of a result
OneText(r, text) == r.content = << [type |-> "text", text |-> text] >>

-----------------------------------------------------------------------------
\* C1: a call of a name that is none of the four tools ends in a
\* MethodNotFound fault with the message 'Unknown tool: <name>', whatever its
\* arguments, with no tool result and nothing posted.
UnknownToolFaults ==
    \A c \in Handled :
       calls[c].name \notin ToolNames =>
          /\ calls[c].st = "faulted"
          /\ calls[c].fault.code = "MethodNotFound"
          /\ calls[c].fault.message = << "Unknown tool: ", calls[c].name >>
          /\ calls[c].result = NoResult
          /\ posted[c] = << >>

UnknownToolCalled ==
    \E c \in Handled :
       /\ calls[c].name = "Analyze_Transaction"
       /\ calls[c].args.present
       /\ IsString(calls[c].args.bag["signature"])
       /\ calls[c].st = "faulted"

\* C2: a call of one of the four tools without arguments, or whose required
\* field is missing or not a string, ends in an InvalidParams fault whose
\* message names the field; no result (so no isError result) and no request.
MissingRequiredFaults ==
    \A c \in Handled :
       (calls[c].name \in ToolNames /\ ~Valid(c)) =>
          /\ calls[c].st = "faulted"
          /\ calls[c].fault.code = "InvalidParams"
          /\ calls[c].fault.message =
                << "Missing required ", RequiredField[calls[c].name], " parameter" >>
          /\ calls[c].result = NoResult
          /\ posted[c] = << >>

RequiredNotAString ==
    \E c \in Handled :
       /\ calls[c].name = "analyze_image"
       /\ calls[c].args.present
       /\ calls[c].args.bag["prompt"].k = "number"
       /\ IsString(calls[c].args.bag["image"])
       /\ calls[c].st = "faulted"

\* C3: when the post of a validated call fails (no answer, or a failure
\* status), or building its payload fails, the handler returns a result with
\* isError true and the one text 'Error <verb>: <failure message>'; the call
\* never ends in a fault.
BuildFailures ==
    { "Cannot convert undefined or null to object",
      "Cannot convert object to primitive value" }

FailureIsErrorResult ==
    \A c \in Handled :
       Valid(c) =>
          /\ calls[c].st # "faulted"
          /\ calls[c].fault = NoFault
          /\ calls[c].settled = "rejected" =>
                /\ calls[c].st = "returned"
                /\ calls[c].result.isError = "true"
                /\ OneText(calls[c].result,
                           Str(<< "Error ", ErrorVerb[calls[c].name], ": " >>
                                 \o calls[c].message))
          /\ (calls[c].st = "returned" /\ calls[c].settled = "") =>
                /\ calls[c].result.isError = "true"
                /\ \E m \in BuildFailures :
                      OneText(calls[c].result,
                              Str(<< "Error ", ErrorVerb[calls[c].name], ": ", m >>))

PostFailed ==
    \E c \in Handled :
       /\ calls[c].name = "analyze_address"
       /\ calls[c].settled = "rejected"
       /\ calls[c].message = << "Request failed with status code 500" >>
       /\ calls[c].st = "returned"
       /\ calls[c].result.isError = "true"

\* the own property `key` of an object
Own(v, key) == (CHOOSE p \in {v.items[i] : i \in 1..Len(v.items)} : p.key = key).val

IsObjectWith(v, key) == v.k = "object" /\ HasOwn(v.items, key)

\* the answer has the field choices[0].message.content
HasContent(data) ==
    /\ IsObjectWith(data, << "choices" >>)
    /\ Own(data, << "choices" >>).k = "array"
    /\ Len(Own(data, << "choices" >>).items) > 0
    /\ IsObjectWith(Own(data, << "choices" >>).items[1], << "message" >>)
    /\ IsObjectWith(Own(Own(data, << "choices" >>).items[1], << "message" >>),
                    << "content" >>)

ContentOf(data) ==
    Own(Own(Own(data, << "choices" >>).items[1], << "message" >>), << "content" >>)

\* C4: a 2xx answer whose body lacks choices[0].message.content is an
\* upstream failure: the result has isError true and a failure text, and is
\* never a success result.
MissingContentIsError ==
    \A c \in Handled :
       (calls[c].settled = "resolved" /\ ~HasContent(responseData(calls[c].body))) =>
          /\ calls[c].result.isError = "true"
          /\ Len(calls[c].result.content) = 1
          /\ IsString(calls[c].result.content[1].text)

\* C5: a 2xx answer whose choices[0].message.content is the string T gives
\* the result with the one text block T and without isError true.
ContentIsReturned ==
    \A c \in Handled :
       (/\ calls[c].settled = "resolved"
        /\ HasContent(responseData(calls[c].body))
        /\ IsString(ContentOf(responseData(calls[c].body)))) =>
          /\ calls[c].st = "returned"
          /\ OneText(calls[c].result, ContentOf(responseData(calls[c].body)))
          /\ calls[c].result.isError # "true"

SecondChoiceIgnored ==
    \E c \in Handled :
       /\ calls[c].name = "analyze_transaction"
       /\ calls[c].settled = "resolved"
       /\ HasContent(responseData(calls[c].body))
       /\ Len(Own(responseData(calls[c].body), << "choices" >>).items) = 2
       /\ OneText(calls[c].result, Str(<< "a", "b" >>))

\* C6: a call posts at most once: not at all when it is rejected before the
\* payload is built, otherwise exactly once.
OnePostUnlessRejected ==
    \A c \in Handled :
       /\ Len(posted[c]) <= 1
       /\ calls[c].st = "faulted" => Len(posted[c]) = 0
       /\ calls[c].st # "faulted" => Len(posted[c]) = 1

\* C7: a valid ask_grok call posts with the vision model exactly when image
\* or image_url was supplied as a string, with the text-only model otherwise;
\* the other three tools always post with the vision model.
VisionIffImageString ==
    \A c \in Handled :
       (Valid(c) /\ Len(posted[c]) = 1) =>
          IF calls[c].name = "ask_grok"
          THEN /\ posted[c][1].model \in {"grok-2-vision-latest", "grok-2-latest"}
               /\ posted[c][1].model = "grok-2-vision-latest" <=>
                     \/ IsString(calls[c].args.bag["image"])
                     \/ IsString(calls[c].args.bag["image_url"])
          ELSE posted[c][1].model = "grok-2-vision-latest"

NonEmptyString(v) == IsString(v) /\ v.s # << >>

\* C7, amended: a valid ask_grok call posts with the vision model exactly
\* when image or image_url was supplied as a non-empty string, with the
\* text-only model otherwise; the other three tools always post with the
\* vision model.
VisionIffImageNonEmpty ==
    \A c \in Handled :
       Valid(c) =>
          IF calls[c].name = "ask_grok"
          THEN /\ Len(posted[c]) = 1
               /\ posted[c][1].model \in {"grok-2-vision-latest", "grok-2-latest"}
               /\ posted[c][1].model = "grok-2-vision-latest" <=>
                     \/ NonEmptyString(calls[c].args.bag["image"])
                     \/ NonEmptyString(calls[c].args.bag["image_url"])
          ELSE \A i \in 1..Len(posted[c]) : posted[c][i].model = "grok-2-vision-latest"

EmptyImageAsked ==
    \E c \in Handled :
       /\ calls[c].name = "ask_grok"
       /\ Valid(c)
       /\ calls[c].args.bag["image"] = Str(<< >>)
       /\ ~IsString(calls[c].args.bag["image_url"])
       /\ Len(posted[c]) = 1
       /\ posted[c][1].model = "grok-2-latest"

\* the same call with the field f left out
Without(args, f) == Present([args.bag EXCEPT ![f] = Undefined])

\* the call of slot c went as CallToolHandler takes the call (name, args),
\* given the answer the slot got
WentAs(c, name, args) ==
    LET o == CallToolHandler(name, args)
    IN  /\ calls[c].st = "faulted" <=> o.kind = "fault"
        /\ calls[c].fault = o.fault
        /\ posted[c] = IF o.kind = "await" THEN << o.req >> ELSE << >>
        /\ calls[c].st = "returned" =>
              calls[c].result =
                 CASE calls[c].settled = "resolved" -> onResolved(name, calls[c].body)
                   [] calls[c].settled = "rejected" -> onRejected(name, calls[c].message)
                   [] OTHER -> o.result

\* C8: an optional field supplied with a non-string value never gets the
\* call rejected, and the call posts the same request and returns the same
\* result as the same call without that field.
NonStringOptionalIsOmitted ==
    \A c \in Handled :
       (calls[c].name \in ToolNames /\ calls[c].args.present) =>
          \A f \in OptionalFields[calls[c].name] :
             calls[c].args.bag[f].k \notin {"undefined", "string"} =>
                /\ Valid(c) => calls[c].st # "faulted"
                /\ WentAs(c, calls[c].name, Without(calls[c].args, f))

NonStringScreenshotSent ==
    \E c \in Handled :
       /\ calls[c].name = "analyze_transaction"
       /\ Valid(c)
       /\ calls[c].args.bag["screenshot"].k = "object"
       /\ calls[c].args.bag["details"].k = "array"
       /\ calls[c].st = "returned"
       /\ calls[c].settled = "resolved"
       /\ Len(posted[c]) = 1
       /\ Len(posted[c][1].messages[2].content) = 1

\* the details of the call in slot c, when a string
DetailsOf(c) == calls[c].args.bag["details"]

\* C9: an analyze_transaction call whose details is not valid JSON still
\* posts, the very request of the same call without details (the text has no
\* 'Additional details'), and its result comes from the upstream answer.
BadDetailsIsOmitted ==
    \A c \in Handled :
       (/\ calls[c].name = "analyze_transaction"
        /\ Valid(c)
        /\ IsString(DetailsOf(c))
        /\ ~JSONParse(DetailsOf(c).s).ok) =>
          /\ calls[c].st \in {"awaiting", "returned"}
          /\ Len(posted[c]) = 1
          /\ posted[c][1].messages[2].content[1] =
                [type |-> "text",
                 text |-> << "Analyze this Solana transaction: " >>
                            \o calls[c].args.bag["signature"].s \o << "\n", "\n" >>]
          /\ WentAs(c, "analyze_transaction", Without(calls[c].args, "details"))
          /\ calls[c].st = "returned" => calls[c].settled \in {"resolved", "rejected"}

BadDetailsAnswered ==
    \E c \in Handled :
       /\ calls[c].name = "analyze_transaction"
       /\ Valid(c)
       /\ DetailsOf(c) = Str(<< "{", "\"amount\"", ":", "1", ",", "}" >>)
       /\ calls[c].st = "returned"
       /\ calls[c].settled = "resolved"
       /\ calls[c].result.isError = "absent"

RECURSIVE LineKeys(_, _)

\* the keys of the '- key: value' lines of a text, from atom i on
LineKeys(text, i) ==
    IF i >= Len(text) THEN << >>
    ELSE IF text[i] = "- " THEN << << text[i + 1] >> >> \o LineKeys(text, i + 2)
    ELSE LineKeys(text, i + 1)

\* the keys of an object other than 'signature', in the object's order
KeysToRender(obj) ==
    SelectSeq([i \in 1..Len(obj.items) |-> obj.items[i].key],
              LAMBDA k : k # << "signature" >>)

\* C10: when details parses to an object, the user prompt text has one
\* '- key: value' line for each key of the object but 'signature', in the
\* object's key order, and none for 'signature'.
DetailKeysAreRendered ==
    \A c \in Handled :
       (/\ calls[c].name = "analyze_transaction"
        /\ Valid(c)
        /\ IsString(DetailsOf(c))
        /\ JSONParse(DetailsOf(c).s).ok
        /\ JSONParse(DetailsOf(c).s).val.k = "object") =>
          /\ Len(posted[c]) = 1
          /\ LineKeys(posted[c][1].messages[2].content[1].text, 1) =
                KeysToRender(JSONParse(DetailsOf(c).s).val)

\* C12: for an analyze_transaction call with a string signature, no details
\* value stops the request: whatever details parses to, the payload is built
\* and exactly one request is posted, so the call never returns a result
\* without an upstream answer.
DetailsNeverAbort ==
    \A c \in Handled :
       (calls[c].name = "analyze_transaction" /\ Valid(c)) =>
          /\ calls[c].st \in {"awaiting", "returned"}
          /\ Len(posted[c]) = 1
          /\ calls[c].st = "returned" => calls[c].settled \in {"resolved", "rejected"}

\* C11: with several calls in flight and their answers arriving in any
\* order, each call's request is the one built from its own arguments and its
\* result the one derived from its own answer (or its own failure), whatever
\* the other calls and the calls handled before are; two calls with the same
\* arguments post the same request, and with the same answer return the same
\* result; a slot whose call was answered holds nothing of it.
CallsAreIndependent ==
    /\ \A c \in Handled : WentAs(c, calls[c].name, calls[c].args)
    /\ \A c \in DOMAIN calls \ Handled : calls[c] = Idle /\ posted[c] = << >>
    /\ \A c, d \in Handled :
          (calls[c].name = calls[d].name /\ calls[c].args = calls[d].args) =>
             /\ posted[c] = posted[d]
             /\ calls[c].fault = calls[d].fault
             /\ (/\ calls[c].st = "returned"
                 /\ calls[d].st = "returned"
                 /\ calls[c].settled = calls[d].settled
                 /\ calls[c].body = calls[d].body
                 /\ calls[c].message = calls[d].message) =>
                   calls[c].result = calls[d].result

AnsweredOutOfOrder ==
    \E c, d \in Handled :
       /\ c < d
       /\ calls[c].name = "ask_grok"
       /\ calls[d].name = "analyze_address"
       /\ calls[c].st = "awaiting"
       /\ calls[d].st = "returned"
       /\ calls[d].settled = "rejected"
       /\ Len(posted[c]) = 1
       /\ Len(posted[d]) = 1

=============================================================================
